---- MODULE Spec2Model ----
(***************************************************************************)
(* A model of eda-game-tester (src/src/main.rs): run_tests launches one    *)
(* ./Game child per seed of a closed range on a rayon worker pool, talks   *)
(* to it over a stdin pipe and a stderr pipe, turns its exit status and    *)
(* diagnostic text into an ExecutionResults, maps that to a TestResults    *)
(* fragment and reduces the fragments to one TestResults.                  *)
(*                                                                         *)
(* u32 is modelled with U32Bits bits instead of 32 (TLC's integers are     *)
(* 32-bit signed); every u32 operation keeps that width.  Text is a        *)
(* sequence of characters, each a one-character string.                    *)
(***************************************************************************)
EXTENDS Integers, Sequences, FiniteSets, TLC

\* ------------------------------------------------------------------ bounds
U32Bits == 5
MaxInstances == 2

U32Max == 2^U32Bits - 1

\* ------------------------------------------------------- small utilities
Range(f) == {f[i] : i \in DOMAIN f}

MaxOfSet(S) == CHOOSE m \in S : \A x \in S : x <= m

\* ------------------------------------------------- u32 arithmetic (scaled)
None == [some |-> FALSE, val |-> 0]
Some(v) == [some |-> TRUE, val |-> v]

checked_add(a, b) == IF a + b > U32Max THEN None ELSE Some(a + b)

\* Faulty variants of MaxSeed: wrapping_add in place of checked_add, and
\* `instances` in place of `instances - 1`.
MaxSeedWrapping(seed, instances) == Some((seed + (instances - 1)) % (U32Max + 1))
MaxSeedExclusive(seed, instances) == checked_add(seed, instances)
\* main.rs 132-135: config.seed.checked_add(config.instances.get() - 1)
MaxSeed(seed, instances) == checked_add(seed, instances - 1)

\* `+=` on u32: a panic with overflow checks (debug build), wraps without.
AddAssign(a, b, checks) ==
    IF a + b > U32Max
    THEN IF checks THEN None ELSE Some((a + b) % (U32Max + 1))
    ELSE Some(a + b)

\* ---------------------------------------------------------- the regex
\* Regex::new(r"player \S* got score (\d*)")
LitPlayer == <<"p", "l", "a", "y", "e", "r", " ">>
LitGotScore == <<" ", "g", "o", "t", " ", "s", "c", "o", "r", "e", " ">>

AsciiDigits == {"0", "1", "2", "3", "4", "5", "6", "7", "8", "9"}
\* \d is Unicode-aware: it also matches decimal digits outside ASCII.
UnicodeDigits == AsciiDigits \cup {"U+0663"}
Whitespace == {" ", "\n", "\t"}

DigitVal(c) ==
    CASE c = "0" -> 0 [] c = "1" -> 1 [] c = "2" -> 2 [] c = "3" -> 3
      [] c = "4" -> 4 [] c = "5" -> 5 [] c = "6" -> 6 [] c = "7" -> 7
      [] c = "8" -> 8 [] c = "9" -> 9

StartsWith(t, i, lit) ==
    /\ i + Len(lit) - 1 <= Len(t)
    /\ \A k \in 1..Len(lit) : t[i + k - 1] = lit[k]

\* First index j >= i whose character is outside class (Len(t)+1 at the end):
\* the greedy run of a starred character class.
RECURSIVE SkipClass(_, _, _)
SkipClass(t, i, class) ==
    IF i <= Len(t) /\ t[i] \in class THEN SkipClass(t, i + 1, class) ELSE i

\* Faulty variant of NonWhitespaceRun: \S+ in place of \S*, an empty token
\* matches nowhere.
NonWhitespaceRunPlus(t, i) ==
    LET RECURSIVE Skip(_)
        Skip(j) == IF j <= Len(t) /\ t[j] \notin Whitespace THEN Skip(j + 1) ELSE j
    IN IF Skip(i) = i THEN Len(t) + 1 ELSE Skip(i)
NonWhitespaceRun(t, i) ==
    LET RECURSIVE Skip(_)
        Skip(j) == IF j <= Len(t) /\ t[j] \notin Whitespace THEN Skip(j + 1) ELSE j
    IN Skip(i)

\* A match of the regex starting exactly at i.  \S* must stop at the first
\* whitespace (the literal that follows starts with a space), so the greedy
\* run is the only candidate.
MatchAt(t, i) ==
    IF ~StartsWith(t, i, LitPlayer)
    THEN [ok |-> FALSE, cap |-> <<>>, end |-> i]
    ELSE LET j == NonWhitespaceRun(t, i + Len(LitPlayer))
         IN IF ~StartsWith(t, j, LitGotScore)
            THEN [ok |-> FALSE, cap |-> <<>>, end |-> i]
            ELSE LET d == j + Len(LitGotScore)
                     e == SkipClass(t, d, UnicodeDigits)
                 IN [ok |-> TRUE, cap |-> SubSeq(t, d, e - 1), end |-> e]

\* re.captures_iter(&output): group 1 of the leftmost non-overlapping matches.
RECURSIVE CapturesFrom(_, _)
CapturesFrom(t, i) ==
    IF i > Len(t) THEN <<>>
    ELSE LET m == MatchAt(t, i)
         IN IF m.ok THEN <<m.cap>> \o CapturesFrom(t, m.end)
            ELSE CapturesFrom(t, i + 1)

captures_iter(t) == CapturesFrom(t, 1)

\* str::parse::<u32>: Err on the empty string, on a character that is not an
\* ASCII digit, and on a value above the u32 maximum.
RECURSIVE ParseDigits(_, _)
ParseDigits(s, acc) ==
    IF s = <<>> THEN Some(acc)
    ELSE IF Head(s) \notin AsciiDigits THEN None
    ELSE IF acc * 10 + DigitVal(Head(s)) > U32Max THEN None
    ELSE ParseDigits(Tail(s), acc * 10 + DigitVal(Head(s)))

parse_u32(s) == IF s = <<>> THEN None ELSE ParseDigits(s, 0)

\* ------------------------------------------------ diagnostic text samples
\* What a ./Game child may print on stderr.  "0xFF" stands for a byte that
\* is not valid UTF-8, "U+0663" for ARABIC-INDIC DIGIT THREE.
NL == <<"\n">>
ScoreLine(token, digits) == LitPlayer \o token \o LitGotScore \o digits \o NL

TextTie ==
    ScoreLine(<<"a">>, <<"1", "0">>) \o ScoreLine(<<"b", "o", "t">>, <<"2", "0">>)
    \o ScoreLine(<<>>, <<"2", "0">>) \o ScoreLine(<<"a">>, <<"5">>)
TextShort ==
    <<"r", "o", "u", "n", "d", " ", "1">> \o NL
    \o <<"=", "=">> \o LitPlayer \o <<"x">> \o LitGotScore \o <<"3", "!">> \o NL
    \o LitPlayer \o <<"a", " ", "b">> \o LitGotScore \o <<"9">> \o NL
    \o ScoreLine(<<"p", "l", "a", "y", "e", "r">>, <<"0", "7">>)
TextEqual ==
    ScoreLine(<<"a">>, <<"7">>) \o ScoreLine(<<"b">>, <<"7">>)
    \o ScoreLine(<<"c">>, <<"7">>) \o ScoreLine(<<"d">>, <<"7">>)
TextFive == TextEqual \o ScoreLine(<<"e">>, <<"1">>)
TextEmptyCapture == ScoreLine(<<"a">>, <<>>)
TextTooLarge == ScoreLine(<<"a">>, <<"9", "9">>)
TextUnicodeDigit == ScoreLine(<<"a">>, <<"U+0663">>)
TextNotUtf8 == ScoreLine(<<"a">>, <<"4">>) \o <<"0xFF">>

Texts ==
    << <<>>, TextTie, TextShort, TextEqual, TextFive, TextEmptyCapture,
       TextTooLarge, TextUnicodeDigit, TextNotUtf8 >>

TextIds == 1..Len(Texts)

\* String::from_utf8 inside read_to_string
ValidUtf8(t) == \A i \in 1..Len(t) : t[i] # "0xFF"

\* ------------------------------------------------------ ExecutionResults
NoPoints == <<0, 0, 0, 0>>
ExecOk(points) == [kind |-> "Ok", points |-> points, seed |-> 0, err |-> ""]
ExecCrash(seed) == [kind |-> "Crash", points |-> NoPoints, seed |-> seed, err |-> ""]
ExecErr(e) == [kind |-> "Err", points |-> NoPoints, seed |-> 0, err |-> e]
ExecPanic(e) == [kind |-> "Panic", points |-> NoPoints, seed |-> 0, err |-> e]

\* main.rs 178-188: ret = [0; 4]; for (i, points) in captures.map(parse.unwrap)
\* .enumerate() { ret[i] = points }.  i counts from 1 here.
RECURSIVE FillPoints(_, _, _)
FillPoints(caps, i, ret) ==
    IF caps = <<>> THEN ExecOk(ret)
    ELSE LET p == parse_u32(Head(caps))
         IN IF ~p.some THEN ExecPanic("unwrap on ParseIntError")
            ELSE IF i > 4 THEN ExecPanic("index out of bounds")
            ELSE FillPoints(Tail(caps), i + 1, [ret EXCEPT ![i] = p.val])

\* Faulty variant of ParseOutput: ret starts from a sentinel, not from zero.
ParseOutputSentinel(output) ==
    FillPoints(captures_iter(output), 1, <<U32Max, U32Max, U32Max, U32Max>>)
ParseOutput(output) == FillPoints(captures_iter(output), 1, NoPoints)

\* main.rs 174-188: what the launch yields once wait() has returned `status`.
\* Faulty variant of AfterWait: the status test inverted.
AfterWaitInverted(seed, status, output) ==
    IF status = 0 THEN ExecCrash(seed) ELSE ParseOutput(output)
AfterWait(seed, status, output) ==
    IF status # 0 THEN ExecCrash(seed) ELSE ParseOutput(output)

\* ------------------------------------------------------------ TestResults
PlayerResultsDefault == [total_points |-> 0, total_wins |-> 0]
Fragment(kind, prs, failed, e) ==
    [kind |-> kind, player_results |-> prs, failed_seeds |-> failed, err |-> e]
TestResultsDefault ==
    Fragment("Ok", [i \in 1..4 |-> PlayerResultsDefault], <<>>, "")
FragErr(e) == [TestResultsDefault EXCEPT !.kind = "Err", !.err = e]
FragPanic(e) == [TestResultsDefault EXCEPT !.kind = "Panic", !.err = e]

\* main.rs 191-205: the map stage.  `x?` hands an Err on; a panic of the
\* launch never reaches it (it unwinds through the worker).
\* Faulty variants of MapStage: only the first leader wins; a tie has no
\* winner; a Crash leaves failed_seeds empty.
MapStageSingleWinner(x) ==
    CASE x.kind = "Err" -> FragErr(x.err)
      [] x.kind = "Panic" -> FragPanic(x.err)
      [] x.kind = "Crash" -> [TestResultsDefault EXCEPT !.failed_seeds = <<x.seed>>]
      [] x.kind = "Ok" ->
            LET best == CHOOSE i \in 1..4 :
                          /\ x.points[i] = MaxOfSet(Range(x.points))
                          /\ \A j \in 1..4 : x.points[j] = x.points[i] => i <= j
            IN [TestResultsDefault EXCEPT !.player_results =
                 [i \in 1..4 |-> [total_points |-> x.points[i],
                                  total_wins |-> IF i = best THEN 1 ELSE 0]]]
MapStageNoTieWinner(x) ==
    CASE x.kind = "Err" -> FragErr(x.err)
      [] x.kind = "Panic" -> FragPanic(x.err)
      [] x.kind = "Crash" -> [TestResultsDefault EXCEPT !.failed_seeds = <<x.seed>>]
      [] x.kind = "Ok" ->
            [TestResultsDefault EXCEPT !.player_results =
                 [i \in 1..4 |->
                    [total_points |-> x.points[i],
                     total_wins |->
                       IF \A j \in 1..4 : j # i => x.points[j] < x.points[i]
                       THEN 1 ELSE 0]]]
MapStageCrashLost(x) ==
    CASE x.kind = "Err" -> FragErr(x.err)
      [] x.kind = "Panic" -> FragPanic(x.err)
      [] x.kind = "Crash" -> TestResultsDefault
      [] x.kind = "Ok" ->
            [TestResultsDefault EXCEPT !.player_results =
                 [i \in 1..4 |-> [total_points |-> x.points[i],
                                  total_wins |-> IF x.points[i] = MaxOfSet(Range(x.points))
                                                 THEN 1 ELSE 0]]]
MapStage(x) ==
    CASE x.kind = "Err" -> FragErr(x.err)
      [] x.kind = "Panic" -> FragPanic(x.err)
      [] x.kind = "Crash" -> [TestResultsDefault EXCEPT !.failed_seeds = <<x.seed>>]
      [] x.kind = "Ok" ->
            [TestResultsDefault EXCEPT !.player_results =
                 [i \in 1..4 |-> [total_points |-> x.points[i],
                                  total_wins |-> IF x.points[i] = MaxOfSet(Range(x.points))
                                                 THEN 1 ELSE 0]]]

\* main.rs 207: the identity of the reduce
ReduceIdentity == TestResultsDefault

\* main.rs 208-219: the reduce operator.  `a?` then `b?`, extend_from_slice,
\* then the two `+=` per slot (a panic on overflow with overflow checks).
\* Faulty variant of ReduceOp: failed_seeds assigned from b, not extended.
ReduceOpOverwrite(a, b, checks) ==
    IF a.kind = "Panic" THEN a
    ELSE IF b.kind = "Panic" THEN b
    ELSE IF a.kind = "Err" THEN a
    ELSE IF b.kind = "Err" THEN b
    ELSE LET pts == [i \in 1..4 |-> AddAssign(a.player_results[i].total_points,
                                              b.player_results[i].total_points, checks)]
             wins == [i \in 1..4 |-> AddAssign(a.player_results[i].total_wins,
                                               b.player_results[i].total_wins, checks)]
         IN IF \E i \in 1..4 : ~pts[i].some \/ ~wins[i].some
            THEN FragPanic("attempt to add with overflow")
            ELSE Fragment("Ok",
                          [i \in 1..4 |-> [total_points |-> pts[i].val,
                                           total_wins |-> wins[i].val]],
                          b.failed_seeds, "")
ReduceOp(a, b, checks) ==
    IF a.kind = "Panic" THEN a
    ELSE IF b.kind = "Panic" THEN b
    ELSE IF a.kind = "Err" THEN a
    ELSE IF b.kind = "Err" THEN b
    ELSE LET pts == [i \in 1..4 |-> AddAssign(a.player_results[i].total_points,
                                              b.player_results[i].total_points, checks)]
             wins == [i \in 1..4 |-> AddAssign(a.player_results[i].total_wins,
                                               b.player_results[i].total_wins, checks)]
         IN IF \E i \in 1..4 : ~pts[i].some \/ ~wins[i].some
            THEN FragPanic("attempt to add with overflow")
            ELSE Fragment("Ok",
                          [i \in 1..4 |-> [total_points |-> pts[i].val,
                                           total_wins |-> wins[i].val]],
                          a.failed_seeds \o b.failed_seeds, "")

\* ------------------------------------------------------------------ state
VARIABLES
    config,           \* TestConfig: seed, instances (players are not modelled)
    overflow_checks,  \* the build: TRUE panics on u32 overflow, FALSE wraps
    settings,         \* length of the settings blob read from settings_file
    rpc,              \* where run_tests is
    max_seed,         \* main.rs 132
    launch,           \* per seed: the map closure of main.rs 151-189
    child,            \* per seed: the ./Game process it spawned
    parts,            \* the partial results the reduce holds
    results,          \* main.rs 149: the reduced TestResults
    error,            \* what run_tests returned in Err, or the panic message
    report,           \* main.rs 222-243: what the report printed
    scan,             \* the score parsing of main.rs 178-188 on a drawn text
    pn,               \* a PlayerName of main.rs 49-75 built from a drawn name
    proto,            \* one launch of main.rs 151-189, pipe step by pipe step
    game,             \* the ./Game process of that launch
    pipes             \* the stdin and stderr pipes between the two

vars == <<config, overflow_checks, settings, rpc, max_seed, launch, child,
          parts, results, error, report, scan, pn, proto, game, pipes>>

\* What run_tests itself never touches: the state of the unit-level
\* specifications below.
aux == <<scan, pn, proto, game, pipes>>

min_seed == config.seed

\* The seeds of min_seed..=max_seed (empty before the range is computed)
Seeds == DOMAIN launch

\* The settings blob is empty or not: write_all tells no other lengths apart.
SettingsLens == {0, 1}

SeedChoices == {0, U32Max - 1, U32Max}

IdleLaunch ==
    [pc |-> "idle", output |-> 0, result |-> ExecOk(NoPoints),
     fragment |-> TestResultsDefault]
NoChild == [st |-> "none", status |-> 0]

NoReport ==
    [printed |-> FALSE, ok_games |-> 0,
     lines |-> [i \in 1..4 |-> [average |-> <<0, 0>>, win_rate |-> <<0, 0>>]],
     failed_seeds |-> <<>>]
NoScan == [pc |-> "off"]
NoName == [pc |-> "off"]
NoProto ==
    [pc |-> "off", stdin |-> "none", stderr |-> "none", settings |-> 0,
     sent |-> 0, got |-> 0, result |-> ExecOk(NoPoints)]
NoGame ==
    [st |-> "none", kind |-> "free", phase |-> "input", text |-> 1,
     written |-> 0, status |-> 0]
NoPipes == [stdin |-> 0, stderr |-> 0]
AuxIdle ==
    /\ scan = NoScan
    /\ pn = NoName
    /\ proto = NoProto
    /\ game = NoGame
    /\ pipes = NoPipes

Init ==
    /\ config \in [seed : SeedChoices, instances : 1..MaxInstances]
    /\ overflow_checks \in BOOLEAN
    /\ settings = 0
    /\ rpc = "start"
    /\ max_seed = 0
    /\ launch = <<>>
    /\ child = <<>>
    /\ parts = {}
    /\ results = TestResultsDefault
    /\ error = ""
    /\ report = NoReport
    /\ AuxIdle

\* main.rs 130-147: the seed range, the regex, the settings file, the
\* progress bar.  The regex and the template are constants that compile.
Setup ==
    /\ rpc = "start"
    /\ LET m == MaxSeed(config.seed, config.instances)
       IN IF ~m.some
          THEN /\ rpc' = "error"
               /\ error' = "SeedRangeOutOfBounds"
               /\ UNCHANGED <<settings, max_seed, launch, child>>
          ELSE \E opened \in BOOLEAN, len \in SettingsLens :
                 IF ~opened
                 THEN /\ rpc' = "error"
                      /\ error' = "io: settings file"
                      /\ UNCHANGED <<settings, max_seed, launch, child>>
                 ELSE /\ rpc' = "running"
                      /\ settings' = len
                      /\ max_seed' = m.val
                      /\ launch' = [s \in min_seed..m.val |-> IdleLaunch]
                      /\ child' = [s \in min_seed..m.val |-> NoChild]
                      /\ UNCHANGED error
    /\ UNCHANGED <<aux, report, config, overflow_checks, parts, results>>

\* A launch that has returned x, with the fragment the map stage made of it
ReturnedLaunch(x) ==
    [pc |-> "returned", output |-> 0, result |-> x, fragment |-> MapStage(x)]

\* The closure returns x for seed s (its locals, the output string among
\* them, are dropped): the worker maps x (main.rs 191-205) and folds the
\* fragment into a fresh accumulator that starts from the identity
\* (main.rs 207).
Return(s, x) ==
    /\ launch' = [launch EXCEPT ![s] = ReturnedLaunch(x)]
    /\ parts' = parts \cup
         {[seeds |-> {s},
           val |-> ReduceOp(ReduceIdentity, MapStage(x), overflow_checks)]}

\* main.rs 149-159: a worker of the pool takes a seed of the range and runs
\* Command::new("./Game")...spawn()?  The pool's size is the host's, so any
\* number of launches may be in flight.
Spawn(s) ==
    /\ rpc = "running"
    /\ launch[s].pc = "idle"
    /\ \E spawned \in BOOLEAN :
         IF spawned
         THEN /\ launch' = [launch EXCEPT ![s].pc = "spawned"]
              /\ child' = [child EXCEPT ![s] = [st |-> "running", status |-> 0]]
              /\ UNCHANGED parts
         ELSE /\ Return(s, ExecErr("io: spawn"))
              /\ UNCHANGED child
    /\ UNCHANGED <<aux, report, config, overflow_checks, settings, rpc, max_seed, results, error>>

\* main.rs 161-165: child.stdin.take().ok_or(..)?; stdin.write_all(settings)?
\* write_all of an empty blob writes nothing; a write to a pipe whose reader
\* has exited fails with BrokenPipe (SIGPIPE is ignored in a Rust program).
WriteStdin(s) ==
    /\ rpc = "running"
    /\ launch[s].pc = "spawned"
    /\ \E handle \in BOOLEAN :
         IF ~handle
         THEN Return(s, ExecErr("BrokenChildCommunication"))
         ELSE IF settings > 0 /\ child[s].st = "exited"
         THEN Return(s, ExecErr("io: write: broken pipe"))
         ELSE /\ launch' = [launch EXCEPT ![s].pc = "written"]
              /\ UNCHANGED parts
    /\ UNCHANGED <<aux, report, config, overflow_checks, settings, rpc, max_seed, child,
                   results, error>>

\* main.rs 167-172: child.stderr.take().ok_or(..)?; read_to_string(&mut output)?
\* The read ends at end of file, that is once the child has exited; t is the
\* text the child had written by then.
ReadStderr(s) ==
    /\ rpc = "running"
    /\ launch[s].pc = "written"
    /\ \E handle \in BOOLEAN :
         IF ~handle
         THEN Return(s, ExecErr("BrokenChildCommunication"))
         ELSE /\ child[s].st = "exited"
              /\ \E t \in TextIds :
                   IF ValidUtf8(Texts[t])
                   THEN /\ launch' = [launch EXCEPT ![s].pc = "read", ![s].output = t]
                        /\ UNCHANGED parts
                   ELSE Return(s, ExecErr("io: read: invalid utf-8"))
    /\ UNCHANGED <<aux, report, config, overflow_checks, settings, rpc, max_seed, child,
                   results, error>>

\* main.rs 174-188: child.wait()?, the status test and the score parsing
Wait(s) ==
    /\ rpc = "running"
    /\ launch[s].pc = "read"
    /\ child[s].st = "exited"
    /\ \E waited \in BOOLEAN :
         IF waited
         THEN /\ child' = [child EXCEPT ![s].st = "reaped"]
              /\ Return(s, AfterWait(s, child[s].status, Texts[launch[s].output]))
         ELSE /\ Return(s, ExecErr("io: wait"))
              /\ UNCHANGED child
    /\ UNCHANGED <<aux, report, config, overflow_checks, settings, rpc, max_seed, results, error>>

\* The ./Game process ends: status 0, or a crash (non-zero status, a signal)
\* at any point of its run.
ChildExit(s) ==
    /\ child[s].st = "running"
    /\ \E status \in {0, 1} :
         child' = [child EXCEPT ![s] = [st |-> "exited", status |-> status]]
    /\ UNCHANGED <<aux, report, config, overflow_checks, settings, rpc, max_seed, launch,
                   parts, results, error>>

\* Faulty variant of Combine: the right operand stays among the partial
\* results after it was folded.
CombineKeepRight(p, q) ==
    /\ rpc = "running"
    /\ p \in parts /\ q \in parts /\ p # q
    /\ parts' = (parts \ {p}) \cup
         {[seeds |-> p.seeds \cup q.seeds,
           val |-> ReduceOp(p.val, q.val, overflow_checks)]}
    /\ UNCHANGED <<aux, report, config, overflow_checks, settings, rpc, max_seed, launch,
                   child, results, error>>
\* main.rs 206-219: the reduce combines two partial results, in any grouping.
Combine(p, q) ==
    /\ rpc = "running"
    /\ p \in parts /\ q \in parts /\ p # q
    /\ parts' = (parts \ {p, q}) \cup
         {[seeds |-> p.seeds \cup q.seeds,
           val |-> ReduceOp(p.val, q.val, overflow_checks)]}
    /\ UNCHANGED <<aux, report, config, overflow_checks, settings, rpc, max_seed, launch,
                   child, results, error>>

\* main.rs 220: the reduce has folded every seed; the `?` on its value
Finish ==
    /\ rpc = "running"
    /\ \E p \in parts :
         /\ parts = {p}
         /\ p.seeds = Seeds
         /\ p.val.kind \in {"Ok", "Err"}
         /\ IF p.val.kind = "Ok"
            THEN /\ rpc' = "report"
                 /\ results' = p.val
                 /\ UNCHANGED error
            ELSE /\ rpc' = "error"
                 /\ error' = p.val.err
                 /\ UNCHANGED results
    /\ UNCHANGED <<aux, report, config, overflow_checks, settings, max_seed, launch, child, parts>>

\* A panic in a closure (main.rs 182, 185, 214, 215) unwinds through the
\* pool: the launches in flight finish, the seeds a worker had not reached
\* may never be launched, and the panic resumes in run_tests.
Unwind ==
    /\ rpc = "running"
    /\ \E p \in parts : p.val.kind = "Panic"
    /\ \A s \in Seeds : launch[s].pc \in {"idle", "returned"}
    /\ rpc' = "panic"
    /\ error' = (CHOOSE p \in parts : p.val.kind = "Panic").val.err
    /\ UNCHANGED <<aux, report, config, overflow_checks, settings, max_seed, launch, child,
                   parts, results>>

\* main.rs 222-243: the report, then Ok(())
\* Faulty variant of OkGames: every instance counted, crashed or not.
OkGamesAll(instances, failed_seeds) == instances
\* main.rs 224: config.instances.get() - results.failed_seeds.len() as u32
\* (failed_seeds holds at most one entry per seed, so the u32 subtraction
\* stays in range).
OkGames(instances, failed_seeds) == instances - Len(failed_seeds)

\* main.rs 226-233: a printed line: f64::from(total_points) / f64::from(ok_games)
\* and f64::from(total_wins) * 100. / f64::from(ok_games), each kept as the
\* pair of its numerator and its denominator (0/0 prints NaN).
ReportLine(res, ok_games) ==
    [average |-> <<res.total_points, ok_games>>,
     win_rate |-> <<res.total_wins * 100, ok_games>>]

Report ==
    /\ rpc = "report"
    /\ rpc' = "done"
    /\ LET ok_games == OkGames(config.instances, results.failed_seeds)
       IN report' = [printed |-> TRUE,
                     ok_games |-> ok_games,
                     lines |-> [i \in 1..4 |->
                                  ReportLine(results.player_results[i], ok_games)],
                     failed_seeds |-> results.failed_seeds]
    /\ UNCHANGED <<aux, config, overflow_checks, settings, max_seed, launch,
                   child, parts, results, error>>

Next ==
    \/ Setup
    \/ \E s \in Seeds : Spawn(s)
    \/ \E s \in Seeds : WriteStdin(s)
    \/ \E s \in Seeds : ReadStderr(s)
    \/ \E s \in Seeds : Wait(s)
    \/ \E s \in Seeds : ChildExit(s)
    \/ \E p \in parts, q \in parts : Combine(p, q)
    \/ Finish
    \/ Unwind
    \/ Report

Spec == Init /\ [][Next]_vars

\* ---------------------------------------- the reduce on drawn outcomes
\* The map and reduce stages as pure functions: every launch of the range
\* 0..n-1 has returned a Success or a Crash drawn from the samples, each
\* fragment sits in its own accumulator, and the reduce groups them.
MaxFragments == 3

PointSamples == {NoPoints, <<10, 20, 20, 5>>, <<3, 7, 0, 0>>, <<7, 7, 7, 7>>}
OutcomeSamples(s) == {ExecOk(pts) : pts \in PointSamples} \cup {ExecCrash(s)}

\* The worked example of the averages: three Success outcomes and one Crash,
\* the Crash at any of the four seeds.
ExampleOutcomes ==
    <<ExecOk(<<1, 0, 0, 0>>), ExecOk(<<0, 1, 0, 0>>), ExecOk(<<2, 0, 0, 0>>),
      ExecCrash(0)>>
ExampleRun(r) ==
    [s \in 0..3 |->
       LET x == ExampleOutcomes[((s + r) % 4) + 1]
       IN IF x.kind = "Crash" THEN ExecCrash(s) ELSE x]
ExampleRuns == {ExampleRun(r) : r \in 0..3}

\* The drawn runs: one outcome per seed of 0..n-1
DrawnRuns ==
    UNION {{xs \in [0..(n - 1) -> UNION {OutcomeSamples(s) : s \in 0..(n - 1)}] :
              \A s \in 0..(n - 1) : xs[s] \in OutcomeSamples(s)} :
           n \in 1..MaxFragments}

InitReduce ==
    /\ overflow_checks \in BOOLEAN
    /\ settings \in SettingsLens
    /\ rpc = "running"
    /\ results = TestResultsDefault
    /\ error = ""
    /\ report = NoReport
    /\ AuxIdle
    /\ \E xs \in DrawnRuns \cup ExampleRuns :
         LET n == Cardinality(DOMAIN xs)
         IN /\ config = [seed |-> 0, instances |-> n]
            /\ max_seed = n - 1
            /\ launch = [s \in 0..(n - 1) |-> ReturnedLaunch(xs[s])]
            /\ child = [s \in 0..(n - 1) |->
                          [st |-> "reaped",
                           status |-> IF xs[s].kind = "Crash" THEN 1 ELSE 0]]
            /\ parts = {[seeds |-> {s},
                         val |-> ReduceOp(ReduceIdentity, MapStage(xs[s]),
                                          overflow_checks)] : s \in 0..(n - 1)}

NextReduce ==
    \/ \E p \in parts, q \in parts : Combine(p, q)
    \/ Finish
    \/ Unwind
    \/ Report

SpecReduce == InitReduce /\ [][NextReduce]_vars

\* --------------------------------------- the unit-level specifications
\* run_tests at rest, while one of its parts is exercised alone
runvars == <<config, overflow_checks, settings, rpc, max_seed, launch, child,
             parts, results, error, report>>
RunIdle ==
    /\ config = [seed |-> 0, instances |-> 1]
    /\ overflow_checks = FALSE
    /\ settings = 0
    /\ rpc = "start"
    /\ max_seed = 0
    /\ launch = <<>>
    /\ child = <<>>
    /\ parts = {}
    /\ results = TestResultsDefault
    /\ error = ""
    /\ report = NoReport

\* ------------------------------------- the score parsing on drawn texts
\* main.rs 178-188 applied to the text of a child that prints up to MaxLines
\* lines: score lines with a drawn token and a drawn number, and other lines.
MaxLines == 4

TokenSamples == {<<>>, <<"a">>, <<"b", "-", "2">>}
DigitSamples == {<<"0">>, <<"7">>, <<"1", "2">>}
OtherLine == <<"r", "o", "u", "n", "d", " ", "1">> \o NL
LineSamples ==
    {[score |-> TRUE, token |-> tk, digits |-> d] :
       tk \in TokenSamples, d \in DigitSamples}
    \cup {[score |-> FALSE, token |-> <<>>, digits |-> <<>>]}

LineText(l) == IF l.score THEN ScoreLine(l.token, l.digits) ELSE OtherLine

RECURSIVE LinesText(_)
LinesText(ls) ==
    IF ls = <<>> THEN <<>> ELSE LineText(Head(ls)) \o LinesText(Tail(ls))

InitParse ==
    /\ RunIdle
    /\ \E n \in 0..MaxLines : \E ls \in [1..n -> LineSamples] :
         scan = [pc |-> "drawn", lines |-> ls, text |-> LinesText(ls),
                 result |-> ExecOk(NoPoints)]
    /\ pn = NoName
    /\ proto = NoProto
    /\ game = NoGame
    /\ pipes = NoPipes

\* main.rs 178-188 on the drawn text
Parse ==
    /\ scan.pc = "drawn"
    /\ scan' = [scan EXCEPT !.pc = "parsed", !.result = ParseOutput(scan.text)]
    /\ UNCHANGED <<runvars, pn, proto, game, pipes>>

NextParse == Parse

SpecParse == InitParse /\ [][NextParse]_vars

\* ----------------------------------------------- PlayerName on drawn names
\* main.rs 49-75.  A name is a command-line argument: a sequence of
\* characters, valid UTF-8, with no NUL in it (an argument ends at its first
\* NUL byte).  Each character has its UTF-8 bytes; a byte is a number.
NameCapacity == 12
MaxNameBytes == 13

NameChars == {"a", "e-acute"}
Utf8Bytes(c) == IF c = "a" THEN <<97>> ELSE <<195, 169>>

RECURSIVE StrBytes(_)
StrBytes(name) ==
    IF name = <<>> THEN <<>> ELSE Utf8Bytes(Head(name)) \o StrBytes(Tail(name))

\* String::from_utf8_lossy: the characters of a byte sequence, U+FFFD for
\* each byte that starts no valid sequence.
RECURSIVE from_utf8_lossy(_)
from_utf8_lossy(b) ==
    IF b = <<>> THEN <<>>
    ELSE IF Head(b) = 0 THEN <<"NUL">> \o from_utf8_lossy(Tail(b))
    ELSE IF Head(b) = 97 THEN <<"a">> \o from_utf8_lossy(Tail(b))
    ELSE IF Head(b) = 195 /\ Len(b) >= 2 /\ b[2] = 169
    THEN <<"e-acute">> \o from_utf8_lossy(Tail(Tail(b)))
    ELSE <<"U+FFFD">> \o from_utf8_lossy(Tail(b))

RECURSIVE trim_end_matches(_, _)
trim_end_matches(str, c) ==
    IF str # <<>> /\ str[Len(str)] = c
    THEN trim_end_matches(SubSeq(str, 1, Len(str) - 1), c)
    ELSE str

\* main.rs 53-57: PlayerName::as_string
as_string(buf) == trim_end_matches(from_utf8_lossy(buf), "NUL")

\* Faulty variant of try_from: `>=` in place of `>`.
try_from_strict(value) ==
    LET b == StrBytes(value)
    IN IF Len(b) >= NameCapacity THEN None
       ELSE Some([i \in 1..NameCapacity |-> IF i <= Len(b) THEN b[i] ELSE 0])
\* main.rs 60-75: TryFrom<&str> for PlayerName
try_from(value) ==
    LET b == StrBytes(value)
    IN IF Len(b) > NameCapacity THEN None
       ELSE Some([i \in 1..NameCapacity |-> IF i <= Len(b) THEN b[i] ELSE 0])

DrawnNames ==
    UNION {{name \in [1..n -> NameChars] : Len(StrBytes(name)) <= MaxNameBytes} :
           n \in 0..MaxNameBytes}

InitName ==
    /\ RunIdle
    /\ \E name \in DrawnNames :
         pn = [pc |-> "arg", name |-> name, buf |-> <<>>, shown |-> <<>>]
    /\ scan = NoScan
    /\ proto = NoProto
    /\ game = NoGame
    /\ pipes = NoPipes

\* main.rs 93-96: args.playerN.as_str().try_into().unwrap()
TryFrom ==
    /\ pn.pc = "arg"
    /\ LET r == try_from(pn.name)
       IN pn' = IF r.some THEN [pn EXCEPT !.pc = "built", !.buf = r.val]
                ELSE [pn EXCEPT !.pc = "rejected"]
    /\ UNCHANGED <<runvars, scan, proto, game, pipes>>

\* main.rs 153 and 229: players[i].as_string()
AsString ==
    /\ pn.pc = "built"
    /\ pn' = [pn EXCEPT !.pc = "shown", !.shown = as_string(pn.buf)]
    /\ UNCHANGED <<runvars, scan, proto, game, pipes>>

NextName == TryFrom \/ AsString

SpecName == InitName /\ [][NextName]_vars

\* ------------------------------------------ one launch, pipe step by step
\* main.rs 151-189 for one seed, with the two pipes of Stdio::piped() as
\* bounded buffers: the settings blob is `settings` units long, the text of
\* the child is cut in blocks of BlockLen characters, and a pipe holds up to
\* PipeCap units or blocks.  A write to a full pipe and a read of an empty
\* pipe whose other end is open block: the step is not enabled.
MaxSettings == 2
PipeCap == 1
BlockLen == 64

\* The children: an "eof_reader" reads its input up to end of input, then
\* prints its text, then exits with status 0; a "free" child stops reading
\* when it likes and may exit, with any status, at any point.
GameKinds == {"eof_reader", "free"}

NBlocks(t) == (Len(t) + BlockLen - 1) \div BlockLen
TextPrefix(t, k) == SubSeq(t, 1, IF k * BlockLen < Len(t) THEN k * BlockLen ELSE Len(t))

\* The String `output` after the blocks read so far
LaunchOutput == TextPrefix(Texts[game.text], proto.got)

\* The write end of the stdin pipe is open while the parent holds it, inside
\* the Child (child.stdin) or in the local `stdin`; the local lives to the
\* end of the closure.  Likewise the read end of the stderr pipe.
StdinWriteEndOpen == proto.stdin \in {"child", "held"}
StderrReadEndOpen == proto.stderr \in {"child", "held"}

InitLaunch ==
    /\ RunIdle
    /\ \E n \in 0..MaxSettings : proto = [NoProto EXCEPT !.pc = "idle", !.settings = n]
    /\ game = NoGame
    /\ pipes = NoPipes
    /\ scan = NoScan
    /\ pn = NoName

\* The closure returns x: its locals (child, stdin, stderr, output) are
\* dropped, which closes the pipe ends the parent holds; dropping a Child
\* neither kills nor waits for the process.
LaunchReturn(x) ==
    proto' = [proto EXCEPT !.pc = "returned", !.result = x,
                           !.stdin = IF @ = "none" THEN @ ELSE "closed",
                           !.stderr = IF @ = "none" THEN @ ELSE "closed"]

\* main.rs 152-159: Command::new("./Game")...spawn()?
LaunchSpawn ==
    /\ proto.pc = "idle"
    /\ \E spawned \in BOOLEAN :
         IF spawned
         THEN /\ proto' = [proto EXCEPT !.pc = "spawned", !.stdin = "child",
                                        !.stderr = "child"]
              /\ \E k \in GameKinds, t \in TextIds :
                   game' = [st |-> "running", kind |-> k, phase |-> "input",
                            text |-> t, written |-> 0, status |-> 0]
         ELSE /\ LaunchReturn(ExecErr("io: spawn"))
              /\ UNCHANGED game
    /\ UNCHANGED <<runvars, scan, pn, pipes>>

\* main.rs 161-164: child.stdin.take().ok_or(BrokenChildCommunication)?
LaunchTakeStdin ==
    /\ proto.pc = "spawned"
    /\ \E handle \in BOOLEAN :
         IF handle
         THEN proto' = [proto EXCEPT !.pc = "writing", !.stdin = "held"]
         ELSE LaunchReturn(ExecErr("BrokenChildCommunication"))
    /\ UNCHANGED <<runvars, scan, pn, game, pipes>>

\* main.rs 165: stdin.write_all(settings.as_bytes())?  One unit per step;
\* Ok once every unit is in the pipe, BrokenPipe if the reader has exited.
LaunchWrite ==
    /\ proto.pc = "writing"
    /\ IF proto.sent = proto.settings
       THEN /\ proto' = [proto EXCEPT !.pc = "written"]
            /\ UNCHANGED pipes
       ELSE IF game.st # "running"
       THEN /\ LaunchReturn(ExecErr("io: write: broken pipe"))
            /\ UNCHANGED pipes
       ELSE /\ pipes.stdin < PipeCap
            /\ pipes' = [pipes EXCEPT !.stdin = @ + 1]
            /\ proto' = [proto EXCEPT !.sent = @ + 1]
    /\ UNCHANGED <<runvars, scan, pn, game>>

\* main.rs 167-171: child.stderr.take().ok_or(..)?; let mut output = String::new()
LaunchTakeStderr ==
    /\ proto.pc = "written"
    /\ \E handle \in BOOLEAN :
         IF handle
         THEN proto' = [proto EXCEPT !.pc = "reading", !.stderr = "held"]
         ELSE LaunchReturn(ExecErr("BrokenChildCommunication"))
    /\ UNCHANGED <<runvars, scan, pn, game, pipes>>

\* Faulty variant of LaunchRead: one read() in place of read_to_string, the
\* text is taken as complete as soon as the pipe is empty.
LaunchReadOnce ==
    /\ proto.pc = "reading"
    /\ IF pipes.stderr > 0
       THEN /\ proto' = [proto EXCEPT !.got = @ + pipes.stderr]
            /\ pipes' = [pipes EXCEPT !.stderr = 0]
       ELSE /\ IF ValidUtf8(LaunchOutput)
               THEN proto' = [proto EXCEPT !.pc = "read"]
               ELSE LaunchReturn(ExecErr("io: read: invalid utf-8"))
            /\ UNCHANGED pipes
    /\ UNCHANGED <<runvars, scan, pn, game>>
\* main.rs 172: stderr.read_to_string(&mut output)?  It takes what the pipe
\* holds, and ends at end of file: the pipe empty and its write end closed,
\* which the exit of the child does.  Then the text is checked as UTF-8.
LaunchRead ==
    /\ proto.pc = "reading"
    /\ IF pipes.stderr > 0
       THEN /\ proto' = [proto EXCEPT !.got = @ + pipes.stderr]
            /\ pipes' = [pipes EXCEPT !.stderr = 0]
       ELSE /\ game.st # "running"
            /\ IF ValidUtf8(LaunchOutput)
               THEN proto' = [proto EXCEPT !.pc = "read"]
               ELSE LaunchReturn(ExecErr("io: read: invalid utf-8"))
            /\ UNCHANGED pipes
    /\ UNCHANGED <<runvars, scan, pn, game>>

\* main.rs 174-188: child.wait()? blocks until the child has exited and
\* reaps it; then the status test and the score parsing.
LaunchWait ==
    /\ proto.pc = "read"
    /\ game.st = "exited"
    /\ \E waited \in BOOLEAN :
         IF waited
         THEN /\ game' = [game EXCEPT !.st = "reaped"]
              /\ LaunchReturn(AfterWait(0, game.status, LaunchOutput))
         ELSE /\ LaunchReturn(ExecErr("io: wait"))
              /\ UNCHANGED game
    /\ UNCHANGED <<runvars, scan, pn, pipes>>

\* The child reads a unit of its input.
GameRead ==
    /\ game.st = "running"
    /\ game.phase = "input"
    /\ pipes.stdin > 0
    /\ pipes' = [pipes EXCEPT !.stdin = @ - 1]
    /\ UNCHANGED <<runvars, scan, pn, proto, game>>

\* The child is done with its input: at end of input (the pipe empty and
\* its write end closed), or, a free child, when it likes.
GameInputDone ==
    /\ game.st = "running"
    /\ game.phase = "input"
    /\ \/ pipes.stdin = 0 /\ ~StdinWriteEndOpen
       \/ game.kind = "free"
    /\ game' = [game EXCEPT !.phase = "output"]
    /\ UNCHANGED <<runvars, scan, pn, proto, pipes>>

\* The child prints a block of its text on stderr; with the read end closed
\* the write kills it (SIGPIPE).
GameWrite ==
    /\ game.st = "running"
    /\ game.phase = "output"
    /\ game.written < NBlocks(Texts[game.text])
    /\ IF ~StderrReadEndOpen
       THEN /\ game' = [game EXCEPT !.st = "exited", !.status = 1]
            /\ pipes' = [pipes EXCEPT !.stdin = 0]
       ELSE /\ pipes.stderr < PipeCap
            /\ pipes' = [pipes EXCEPT !.stderr = @ + 1]
            /\ game' = [game EXCEPT !.written = @ + 1]
    /\ UNCHANGED <<runvars, scan, pn, proto>>

\* The child exits: with status 0 after its text, or, a free child, at any
\* point with any status.  What it left unread in its input is discarded.
GameExit ==
    /\ game.st = "running"
    /\ \E status \in {0, 1} :
         /\ \/ game.kind = "free"
            \/ /\ status = 0
               /\ game.phase = "output"
               /\ game.written = NBlocks(Texts[game.text])
         /\ game' = [game EXCEPT !.st = "exited", !.status = status]
    /\ pipes' = [pipes EXCEPT !.stdin = 0]
    /\ UNCHANGED <<runvars, scan, pn, proto>>

NextLaunch ==
    \/ LaunchSpawn
    \/ LaunchTakeStdin
    \/ LaunchWrite
    \/ LaunchTakeStderr
    \/ LaunchRead
    \/ LaunchWait
    \/ GameRead
    \/ GameInputDone
    \/ GameWrite
    \/ GameExit

SpecLaunch == InitLaunch /\ [][NextLaunch]_vars

\* ------------------------------------------------------------ properties
Finished == rpc \in {"done", "error", "panic"}
ReturnedOk == rpc \in {"report", "done"}

SeedSeq(S) ==
    LET RECURSIVE Asc(_)
        Asc(T) == IF T = {} THEN <<>>
                  ELSE LET m == CHOOSE x \in T : \A y \in T : x <= y
                       IN <<m>> \o Asc(T \ {m})
    IN Asc(S)

\* One full reduction of the seeds of S: a sequential fold, in seed order,
\* from the identity.
RECURSIVE FoldSeq(_, _)
FoldSeq(acc, ss) ==
    IF ss = <<>> THEN acc
    ELSE FoldSeq(ReduceOp(acc, launch[Head(ss)].fragment, overflow_checks), Tail(ss))

FullReduction(S) == FoldSeq(ReduceIdentity, SeedSeq(S))

NoDuplicates(q) == \A i, j \in 1..Len(q) : q[i] = q[j] => i = j

\* Field-wise equality on the totals, set equality on failed_seeds
SameTestResults(a, b) ==
    /\ a.kind = b.kind
    /\ a.kind = "Ok" =>
         /\ a.player_results = b.player_results
         /\ Range(a.failed_seeds) = Range(b.failed_seeds)
         /\ Len(a.failed_seeds) = Len(b.failed_seeds)

\* C1: whatever Success and Crash outcomes the seeds produced and however the
\* reduce grouped and ordered their fragments, every partial result equals
\* the single full reduction of the seeds it covers, and so does the final
\* TestResults (the same totals per slot, the same set of failed seeds); a run
\* whose totals overflow with overflow checks on panics in every grouping.
C1_ReduceGroupingIndependent ==
    /\ \A p \in parts : SameTestResults(p.val, FullReduction(p.seeds))
    /\ ReturnedOk => SameTestResults(results, FullReduction(Seeds))
    /\ rpc = "panic" => FullReduction(Seeds).kind = "Panic"

\* Three fragments were reduced to a final result with points, wins and two
\* failed seeds that are not in seed order.
C1_Witness ==
    /\ rpc = "done"
    /\ config.instances = 3
    /\ results.failed_seeds = <<2, 0>>
    /\ results.player_results[2].total_points = 20
    /\ results.player_results[2].total_wins = 1

\* The seeds whose child exited with a non-zero status
CrashedSeeds == {s \in Seeds : child[s].st \in {"exited", "reaped"} /\ child[s].status # 0}

\* C2: when run_tests got a TestResults out of the reduce, failed_seeds holds
\* exactly the seeds whose child exited with a non-zero status, each once.
C2_FailedSeedsExact ==
    ReturnedOk =>
        /\ Range(results.failed_seeds) = CrashedSeeds
        /\ NoDuplicates(results.failed_seeds)

\* A finished run of two seeds of which one child crashed and one did not
C2_Witness ==
    /\ rpc = "done"
    /\ config.instances = 2
    /\ Cardinality(CrashedSeeds) = 1
    /\ Len(results.failed_seeds) = 1

\* Fatal conditions that are the harness's or the host's, not the child's doing
HarnessFaults == {"io: spawn", "BrokenChildCommunication", "io: wait"}

\* C3: a seed whose child exited with a non-zero status, at whatever point of
\* the protocol, and whose launch met no harness fault, is returned as
\* Crash{seed} (and so recorded in failed_seeds instead of ending the run
\* with an error).
C3_CrashNeverStopsRun ==
    \A s \in Seeds :
        ( /\ launch[s].pc = "returned"
          /\ s \in CrashedSeeds
          /\ ~(launch[s].result.kind = "Err" /\ launch[s].result.err \in HarnessFaults) )
        => launch[s].result = ExecCrash(s)

\* C4: once the launch of some seed has returned a fatal error, run_tests
\* ends by returning an error, whatever the other seeds produced.
C4_FatalGivesSingleError ==
    ( /\ Finished
      /\ \E s \in Seeds : launch[s].pc = "returned" /\ launch[s].result.kind = "Err" )
    => rpc = "error"

\* seed + instances - 1 fits the seed width (in unbounded arithmetic)
Fits == config.seed + config.instances - 1 <= U32Max
Launched == {s \in Seeds : launch[s].pc # "idle"}
\* run_tests came back from the reduce with a value, Ok or Err
ReduceReturned == ReturnedOk \/ (rpc = "error" /\ parts # {})

\* C5: when seed + instances - 1 fits, the seeds run_tests hands to the pool
\* are exactly seed..seed+instances-1 (instances of them, least seed,
\* greatest seed + instances - 1), no other seed is ever launched, and when
\* the reduce returns every one of them has been launched.
C5_SeedRangeExact ==
    (Fits /\ rpc \notin {"start"} /\ ~(rpc = "error" /\ parts = {})) =>
        /\ Seeds = config.seed..(config.seed + config.instances - 1)
        /\ Cardinality(Seeds) = config.instances
        /\ \A s \in Seeds : config.seed <= s /\ s <= config.seed + config.instances - 1
        /\ config.seed \in Seeds /\ config.seed + config.instances - 1 \in Seeds
        /\ max_seed = config.seed + config.instances - 1
        /\ ReduceReturned => Launched = Seeds

\* A run over the two greatest seeds has launched both and returned
C5_Witness ==
    /\ rpc = "done"
    /\ config = [seed |-> U32Max - 1, instances |-> 2]
    /\ Launched = {U32Max - 1, U32Max}

\* C6: when seed + instances - 1 exceeds the maximum, run_tests, once past
\* its start, has failed with SeedRangeOutOfBounds, with no range built and
\* no child spawned.
C6_SeedRangeOverflowFails ==
    (~Fits /\ rpc # "start") =>
        /\ rpc = "error"
        /\ error = "SeedRangeOutOfBounds"
        /\ launch = <<>>
        /\ child = <<>>
        /\ parts = {}

C6_Witness ==
    /\ config = [seed |-> U32Max, instances |-> 2]
    /\ rpc = "error"
    /\ error = "SeedRangeOutOfBounds"

\* C7: the fragment of a Success{points} has, per slot, total_points equal to
\* the slot's score and total_wins 1 exactly when no slot has a greater
\* score (else 0), and no failed seed.
C7_MapStageSuccess ==
    \A s \in Seeds :
        (launch[s].pc = "returned" /\ launch[s].result.kind = "Ok") =>
            LET pts == launch[s].result.points
                f == launch[s].fragment
            IN /\ f.kind = "Ok"
               /\ f.failed_seeds = <<>>
               /\ \A i \in 1..4 :
                    /\ f.player_results[i].total_points = pts[i]
                    /\ f.player_results[i].total_wins \in {0, 1}
                    /\ f.player_results[i].total_wins = 1
                         <=> \A j \in 1..4 : pts[j] <= pts[i]

Wins(f) == [i \in 1..4 |-> f.player_results[i].total_wins]

\* One seed scored [10,20,20,5] and players 2 and 3 won; another scored
\* all zero and all four won.
C7_Witness ==
    \E s, t \in Seeds :
        /\ launch[s].pc = "returned" /\ launch[s].result = ExecOk(<<10, 20, 20, 5>>)
        /\ Wins(launch[s].fragment) = <<0, 1, 1, 0>>
        /\ launch[t].pc = "returned" /\ launch[t].result = ExecOk(NoPoints)
        /\ Wins(launch[t].fragment) = <<1, 1, 1, 1>>

C9_MalformedOutputNeverFatal ==
    \A s \in Seeds :
        (launch[s].pc = "returned" /\ child[s].st = "reaped" /\ child[s].status = 0) =>
            launch[s].result.kind = "Ok"

\* The scores of a text: the captures of its matching lines as u32
Scores(t) == [i \in 1..Len(captures_iter(t)) |-> parse_u32(captures_iter(t)[i])]

SuccessSeeds == {s \in Seeds : launch[s].result.kind = "Ok"}
IsExampleRun == \E r \in 0..3 : [s \in Seeds |-> launch[s].result] = ExampleRun(r)
C12_DenominatorCountsSuccesses ==
    report.printed =>
      /\ report.ok_games = Cardinality(SuccessSeeds)
      /\ report.ok_games = config.instances - Len(results.failed_seeds)
      /\ \A i \in 1..4 :
           /\ report.lines[i].average =
                <<results.player_results[i].total_points, Cardinality(SuccessSeeds)>>
           /\ report.lines[i].win_rate =
                <<results.player_results[i].total_wins * 100, Cardinality(SuccessSeeds)>>
      /\ IsExampleRun =>
           /\ [i \in 1..4 |-> results.player_results[i].total_points] = <<3, 1, 0, 0>>
           /\ [i \in 1..4 |-> results.player_results[i].total_wins] = <<2, 1, 0, 0>>
           /\ Len(results.failed_seeds) = 1
           /\ report.ok_games = 3
C12_Witness ==
    /\ report.printed
    /\ IsExampleRun
    /\ report.ok_games = 3
    /\ Len(report.failed_seeds) = 1

\* C11: scores are positional.  The number of the i-th line of the text that
\* has the form "player <token> got score <number>", counted in textual order
\* over the lines of that form only, lands in slot i, whatever the token is
\* (empty, repeated, any non-whitespace text): no token is looked up as a name.
RECURSIVE DecimalValue(_)
DecimalValue(d) ==
    IF d = <<>> THEN 0
    ELSE 10 * DecimalValue(SubSeq(d, 1, Len(d) - 1)) + DigitVal(d[Len(d)])
ScoreLines(ls) == SelectSeq(ls, LAMBDA l : l.score)
C11_ScoresPositional ==
    (scan.pc = "parsed" /\ Len(ScoreLines(scan.lines)) <= 4) =>
      /\ scan.result.kind = "Ok"
      /\ \A i \in 1..4 :
           scan.result.points[i] =
             IF i <= Len(ScoreLines(scan.lines))
             THEN DecimalValue(ScoreLines(scan.lines)[i].digits)
             ELSE 0
C11_Witness ==
    /\ scan.pc = "parsed"
    /\ Len(scan.lines) = 4
    /\ ~scan.lines[1].score
    /\ scan.lines[2].score /\ scan.lines[2].token = <<>>
    /\ scan.lines[3].score /\ scan.lines[3].token = <<"a">>
    /\ scan.lines[4].score /\ scan.lines[4].token = <<"a">>
    /\ scan.result = ExecOk(<<12, 7, 0, 0>>)

\* C13: the accumulated total_points and total_wins of every player never
\* decrease as further fragments are combined into an accumulator, and
\* combining with Crash fragments only leaves them as they were.
Totals(f) ==
    [i \in 1..4 |-> <<f.player_results[i].total_points,
                      f.player_results[i].total_wins>>]
C13_TotalsNeverDecrease ==
    [][\A p \in parts : \A q \in parts' :
         (p.seeds \subseteq q.seeds /\ p.val.kind = "Ok" /\ q.val.kind = "Ok") =>
           /\ \A i \in 1..4 :
                /\ Totals(q.val)[i][1] >= Totals(p.val)[i][1]
                /\ Totals(q.val)[i][2] >= Totals(p.val)[i][2]
           /\ (\A s \in q.seeds \ p.seeds : launch[s].result.kind = "Crash") =>
                Totals(q.val) = Totals(p.val)]_vars

\* C14: PlayerName::try_from fails for every name of more than 12 bytes; for
\* every name of at most 12 bytes it succeeds, and as_string of the
\* PlayerName it built returns the name.
C14_PlayerNameRoundTrip ==
    /\ pn.pc \in {"built", "shown", "rejected"} =>
         (pn.pc = "rejected" <=> Len(StrBytes(pn.name)) > 12)
    /\ pn.pc = "shown" => pn.shown = pn.name
C14_Witness ==
    /\ pn.pc = "shown"
    /\ Len(StrBytes(pn.name)) = 12
    /\ Len(pn.name) < 12
    /\ pn.shown = pn.name

\* C15: in each launch the worker has written the whole settings blob and
\* has closed the child's input stream, so that the child sees end of input,
\* before it starts to read the diagnostic stream and before it waits.
C15_StdinClosedBeforeRead ==
    proto.pc \in {"reading", "read"} =>
      /\ proto.sent = proto.settings
      /\ ~StdinWriteEndOpen

\* C16: the worker waits for the exit of the child only after it has read
\* the diagnostic stream to its end: when it is about to wait, and once it
\* has waited, nothing the child printed is unread.
C16_WaitAfterEndOfOutput ==
    (proto.pc = "read" \/ game.st = "reaped") =>
      /\ pipes.stderr = 0
      /\ proto.got = game.written
      /\ game.st # "running"
C16_Witness ==
    /\ game.st = "reaped"
    /\ proto.pc = "returned"
    /\ proto.got = 2
    /\ proto.result.kind = "Ok"

\* C17: a launch never deadlocks with its child.  With a child that reads
\* its input up to end of input, prints its text and exits, a launch that
\* has not returned always has a step to take, its own or its child's.
C17_LaunchNeverStuck ==
    (game.kind = "eof_reader" /\ game.st = "running" /\ proto.pc # "returned") =>
      ENABLED NextLaunch

\* C18: under every scheduling of the pool each seed gets exactly one child,
\* its launch produces its outcome exactly once, and that outcome is folded
\* exactly once: the partial results hold every returned seed once, and when
\* run_tests ends without a fatal error the number of Success outcomes plus
\* |failed_seeds| is `instances`.
FoldedOnce ==
    /\ \A p \in parts : \A q \in parts : p # q => p.seeds \cap q.seeds = {}
    /\ UNION {p.seeds : p \in parts} = {s \in Seeds : launch[s].pc = "returned"}
    /\ \A p \in parts :
         p.val.kind = "Ok" =>
           Len(p.val.failed_seeds)
             + Cardinality({s \in p.seeds : launch[s].result.kind = "Ok"})
           = Cardinality(p.seeds)
    /\ ReturnedOk =>
         /\ \A s \in Seeds : child[s].st = "reaped"
         /\ Cardinality(SuccessSeeds) + Len(results.failed_seeds) = config.instances
OneChildOneOutcome ==
    \A s \in Seeds :
      /\ child[s].st # "none" => child'[s].st # "none"
      /\ child[s].st \in {"exited", "reaped"} => child'[s].st # "running"
      /\ launch[s].pc # "idle" => launch'[s].pc # "idle"
      /\ launch[s].pc = "returned" => launch'[s] = launch[s]
C18_EachSeedOnce == [][FoldedOnce /\ FoldedOnce' /\ OneChildOneOutcome]_vars
C18_Witness ==
    /\ rpc = "done"
    /\ config.instances = 2
    /\ Cardinality(SuccessSeeds) = 1
    /\ Len(results.failed_seeds) = 1

\* C19: in every aggregate of s Success outcomes and any number of Crash
\* outcomes, each player's total_wins is at most s, and the four total_wins
\* sum to at least s and at most 4*s (every Success has at least one winner
\* and at most four).
SuccessesIn(p) == Cardinality({s \in p.seeds : launch[s].result.kind = "Ok"})
WinsOf(f) == [i \in 1..4 |-> f.player_results[i].total_wins]
WinsSum(f) == WinsOf(f)[1] + WinsOf(f)[2] + WinsOf(f)[3] + WinsOf(f)[4]
C19_WinsBounds ==
    \A p \in parts :
      p.val.kind = "Ok" =>
        /\ \A i \in 1..4 : WinsOf(p.val)[i] <= SuccessesIn(p)
        /\ SuccessesIn(p) <= WinsSum(p.val)
        /\ WinsSum(p.val) <= 4 * SuccessesIn(p)
C19_Witness ==
    \E p \in parts :
      /\ p.val.kind = "Ok"
      /\ Cardinality(p.seeds) = 3
      /\ SuccessesIn(p) = 2
      /\ Len(p.val.failed_seeds) = 1
      /\ WinsOf(p.val) = <<0, 2, 1, 0>>

\* C20: every child a worker spawns is waited for by that worker before the
\* launch of its seed returns, with an outcome or with a fatal error: a
\* returned launch leaves no child running or unreaped.
C20_ChildReapedAtReturn ==
    \A s \in Seeds :
      launch[s].pc = "returned" => child[s].st \in {"none", "reaped"}

====
